---- MODULE Spec2Model ----
(***************************************************************************)
(* The asynchronous job pipeline of the financial document analyzer:       *)
(* the submission endpoint (main.py), the Celery task that executes one    *)
(* Dispatch Message (celery_worker.py), the three tables (database.py)     *)
(* and the read endpoints.  One action per handler step; a step ends at a  *)
(* commit, at the Analyzer call or at a file-system call.                  *)
(***************************************************************************)
EXTENDS Integers, Sequences, FiniteSets, TLC

\* ------------------------------------------------------------------ bounds
MaxJobs == 2            \* submissions accepted in one behaviour
NumWorkers == 2         \* executors of the worker pool
MaxRedeliveries == 1    \* further copies of messages the broker delivers
MaxResults == 3         \* Result rows, in any order of created_at, when paging
ExampleResults == 15    \* Result rows of the paging example

\* ------------------------------------------------- configuration constants
task_time_limit == 600
task_soft_time_limit == 540

JobIds == 1..MaxJobs
Workers == 1..NumWorkers

\* A nullable column holds NULL or Some(v)
NULL == <<>>
Some(v) == <<v>>
NoRow == [row |-> FALSE]

\* The standard prompt (main.py line 161), abbreviated to three characters;
\* it has no leading or trailing whitespace.
DefaultQuery == <<"s", "t", "d">>

\* Query text a client sends: one that strip() changes.
Queries == { <<" ", "q">> }
Filenames == { "a.pdf" }
FileSizes == { 10 }

\* ------------------------------------------------------------ pure helpers
Whitespace == { " " }

RECURSIVE lstrip(_)
lstrip(s) == IF s # <<>> /\ Head(s) \in Whitespace THEN lstrip(Tail(s)) ELSE s

RECURSIVE rstrip(_)
rstrip(s) ==
    IF s # <<>> /\ s[Len(s)] \in Whitespace
    THEN rstrip(SubSeq(s, 1, Len(s) - 1))
    ELSE s

\* str.strip()
strip(s) == rstrip(lstrip(s))

\* f"data/financial_document_{job_id}.pdf": one path per job id
file_path_of(job_id) == job_id

VARIABLES
    celery_enabled,     \* CELERY_ENABLED, fixed at import time
    analysis_requests,  \* Job table: job_id -> row or NoRow
    analysis_results,   \* Result table: sequence of rows, insertion order
    user_activity,      \* Activity table: sequence of rows, insertion order
    queue,              \* Dispatch Messages waiting at the broker
    sent,               \* job_id -> the Dispatch Message enqueued for it
    deliveries,         \* job_id -> copies of its message put on the queue
    files,              \* paths that exist under data/
    task,               \* per executor: position and locals of its attempt
    api,                \* the API request in progress
    response,           \* response produced by the step just taken
    next_job,           \* next fresh job id (uuid4)
    now,                \* wall clock, as sampled by datetime.utcnow(); it
                        \* advances with every committed terminal write
    sessions            \* per executor: store sessions it holds open

vars == << celery_enabled, analysis_requests, analysis_results, user_activity,
           queue, sent, deliveries, files, task, api, response, next_job, now,
           sessions >>

stores == << analysis_requests, analysis_results, user_activity >>

NoMsg == [msg |-> FALSE]
IdleTask == [pc |-> "idle"]
IdleApi == [pc |-> "idle"]
NoResponse == [op |-> "none"]

\* ------------------------------------------------------------ store sessions
\* db = SessionLocal(), celery_worker.py line 35
SessionLocal(s, w) == [s EXCEPT ![w] = @ + 1]

\* db.close(), celery_worker.py line 148
db_close(s, w) == [s EXCEPT ![w] = @ - 1]

\* ------------------------------------------------------------ table access
\* db.query(AnalysisRequest).filter(job_id == j).first()
request_of(j) == analysis_requests[j]

\* db.query(AnalysisResult).filter(job_id == j).first()
result_rows(j) == { i \in 1..Len(analysis_results) : analysis_results[i].job_id = j }
has_result(j) == result_rows(j) # {}
result_of(j) == analysis_results[CHOOSE i \in result_rows(j) : \A k \in result_rows(j) : i <= k]

activity_rows(j, ok) ==
    { i \in 1..Len(user_activity) :
        user_activity[i].job_id = j /\ user_activity[i].success = ok }

status_of(j) == IF analysis_requests[j] = NoRow THEN "absent" ELSE analysis_requests[j].status

Init ==
    /\ celery_enabled \in BOOLEAN
    /\ analysis_requests = [j \in JobIds |-> NoRow]
    /\ analysis_results = <<>>
    /\ user_activity = <<>>
    /\ queue = <<>>
    /\ sent = [j \in JobIds |-> NoMsg]
    /\ deliveries = [j \in JobIds |-> 0]
    /\ files = {}
    /\ task = [w \in Workers |-> IdleTask]
    /\ api = IdleApi
    /\ response = NoResponse
    /\ next_job = 1
    /\ now = 1
    /\ sessions = [w \in Workers |-> 0]

\* =================================================== POST /analyze/async
\* Dispatch Message built by .delay(...) (main.py lines 177-184)
DispatchMessage(a) ==
    [ job_id |-> a.job_id,
      file_path |-> file_path_of(a.job_id),
      query |-> strip(a.query),
      filename |-> a.filename,
      file_size |-> a.file_size ]

\* Variant: the Job row is added to the session but db.commit() is not called
\* before .delay(), so the row is not in the table when the message is sent.
SubmitCreateUncommitted(query, filename, file_size, db_ok) ==
    /\ api.pc = "idle"
    /\ IF ~celery_enabled
       THEN /\ response' = [op |-> "submit", code |-> 503]
            /\ UNCHANGED << analysis_requests, files, api, next_job, now >>
       ELSE /\ next_job <= MaxJobs
            /\ LET job_id == next_job
                   q == IF query = <<>> THEN DefaultQuery ELSE query
               IN
               /\ IF db_ok
                  THEN /\ next_job' = next_job + 1
                       /\ files' = files \cup { file_path_of(job_id) }
                       /\ analysis_requests' = analysis_requests
                       /\ api' = [ pc |-> "enqueue", job_id |-> job_id, query |-> q,
                                   filename |-> filename, file_size |-> file_size ]
                       /\ response' = NoResponse
                       /\ now' = now
                  ELSE /\ files' = files \ { file_path_of(job_id) }
                       /\ response' = [op |-> "submit", code |-> 500]
                       /\ UNCHANGED << analysis_requests, api, next_job, now >>
    /\ UNCHANGED << celery_enabled, analysis_results, user_activity, queue, sent,
                    deliveries, task >>
    /\ UNCHANGED sessions

\* main.py lines 139-174: the guard, the upload written to disk, the query
\* default, the Job row committed as pending.  db_ok = FALSE is a commit that
\* raises; the except clause (lines 194-201) then removes the file.
SubmitCreate(query, filename, file_size, db_ok) ==
    /\ api.pc = "idle"
    /\ IF ~celery_enabled
       THEN /\ response' = [op |-> "submit", code |-> 503]
            /\ UNCHANGED << analysis_requests, files, api, next_job, now >>
       ELSE /\ next_job <= MaxJobs
            /\ LET job_id == next_job
                   q == IF query = <<>> THEN DefaultQuery ELSE query
               IN
               /\ IF db_ok
                  THEN /\ next_job' = next_job + 1
                       /\ files' = files \cup { file_path_of(job_id) }
                       /\ analysis_requests' =
                            [analysis_requests EXCEPT ![job_id] =
                                [ job_id |-> job_id,
                                  filename |-> filename,
                                  query |-> q,
                                  status |-> "pending",
                                  created_at |-> now,
                                  updated_at |-> now,
                                  completed_at |-> NULL,
                                  error_message |-> NULL ]]
                       /\ api' = [ pc |-> "enqueue", job_id |-> job_id, query |-> q,
                                   filename |-> filename, file_size |-> file_size ]
                       /\ response' = NoResponse
                       /\ now' = now
                  ELSE /\ files' = files \ { file_path_of(job_id) }
                       /\ response' = [op |-> "submit", code |-> 500]
                       /\ UNCHANGED << analysis_requests, api, next_job, now >>
    /\ UNCHANGED << celery_enabled, analysis_results, user_activity, queue, sent,
                    deliveries, task >>
    /\ UNCHANGED sessions

\* main.py lines 176-201: the message is handed to the broker and the job id
\* returned; broker_ok = FALSE is .delay() raising, which reaches the except
\* clause: the file is removed and a 500 is raised.  The Job row stays.
SubmitEnqueue(broker_ok) ==
    /\ api.pc = "enqueue"
    /\ api' = IdleApi
    /\ IF broker_ok
       THEN /\ queue' = Append(queue, DispatchMessage(api))
            /\ sent' = [sent EXCEPT ![api.job_id] = DispatchMessage(api)]
            /\ deliveries' = [deliveries EXCEPT ![api.job_id] = 1]
            /\ response' = [op |-> "submit", code |-> 200, job_id |-> api.job_id,
                            query |-> api.query]
            /\ UNCHANGED files
       ELSE /\ files' = files \ { file_path_of(api.job_id) }
            /\ response' = [op |-> "submit", code |-> 500, job_id |-> api.job_id]
            /\ UNCHANGED << queue, sent, deliveries >>
    /\ UNCHANGED << celery_enabled, analysis_requests, analysis_results,
                    user_activity, task, next_job, now >>
    /\ UNCHANGED sessions

\* ================================================================ the broker
\* Variant: the executor is handed the head of the queue whether or not its
\* current attempt has ended.
DeliverToBusy(w) ==
    /\ queue # <<>>
    /\ task' = [task EXCEPT ![w] = [ pc |-> "start", msg |-> Head(queue) ]]
    /\ queue' = Tail(queue)
    /\ response' = NoResponse
    /\ UNCHANGED << celery_enabled, analysis_requests, analysis_results,
                    user_activity, sent, deliveries, files, api, next_job, now >>
    /\ UNCHANGED sessions

\* An idle executor takes the message at the head of the queue
\* (worker_prefetch_multiplier = 1: one message per executor).
Deliver(w) ==
    /\ task[w].pc = "idle"
    /\ queue # <<>>
    /\ task' = [task EXCEPT ![w] = [ pc |-> "start", msg |-> Head(queue) ]]
    /\ queue' = Tail(queue)
    /\ response' = NoResponse
    /\ UNCHANGED << celery_enabled, analysis_requests, analysis_results,
                    user_activity, sent, deliveries, files, api, next_job, now >>
    /\ UNCHANGED sessions

\* At-least-once delivery: the broker puts a further copy of a message it
\* already accepted on the queue.
RECURSIVE SumOver(_, _)
SumOver(f, S) ==
    IF S = {} THEN 0
    ELSE LET x == CHOOSE y \in S : TRUE IN f[x] + SumOver(f, S \ {x})

Redelivered == SumOver([j \in JobIds |-> IF deliveries[j] > 1 THEN deliveries[j] - 1 ELSE 0], JobIds)

Redeliver(j) ==
    /\ sent[j] # NoMsg
    /\ Redelivered < MaxRedeliveries
    /\ queue' = Append(queue, sent[j])
    /\ deliveries' = [deliveries EXCEPT ![j] = @ + 1]
    /\ response' = NoResponse
    /\ UNCHANGED << celery_enabled, analysis_requests, analysis_results,
                    user_activity, sent, files, task, api, next_job, now >>
    /\ UNCHANGED sessions

\* ===================================== analyze_financial_document_task_celery
\* The executor's attempt has ended (return, raise or kill): finally db.close()
\* has run and the executor is free for the next message.
EndTask(w) == [task EXCEPT ![w] = IdleTask]

\* An exception raised by a commit inside the try block (lines 44, 96): the
\* transaction is rolled back and the session refuses further SQL until
\* rollback() is called, so the handler's own query at line 118 raises; the
\* handler records nothing, removes nothing, and only finally (line 148) runs.
CommitRaisedInTry(w) ==
    /\ task' = EndTask(w)
    /\ UNCHANGED << analysis_requests, analysis_results, user_activity, files >>

\* lines 35-44: open the session, start the stopwatch, look the Job up and,
\* when it exists, set it to processing whatever its status was; commit.
TaskStart(w, db_ok) ==
    /\ task[w].pc = "start"
    /\ LET job_id == task[w].msg.job_id
           db_request == request_of(job_id)
       IN
       IF db_request # NoRow /\ ~db_ok
       THEN CommitRaisedInTry(w)
       ELSE /\ analysis_requests' =
                 IF db_request # NoRow
                 THEN [analysis_requests EXCEPT ![job_id] =
                          [ @ EXCEPT !.status = "processing", !.updated_at = now ]]
                 ELSE analysis_requests
            /\ task' = [task EXCEPT ![w] =
                          [ pc |-> "kickoff", msg |-> task[w].msg,
                            db_request |-> (db_request # NoRow),
                            elapsed |-> 0 ]]
            /\ UNCHANGED << analysis_results, user_activity, files >>
    /\ response' = NoResponse
    /\ UNCHANGED << celery_enabled, queue, sent, deliveries, api, next_job, now >>
    \* line 35 opens the session; when the commit raises, finally (line 148)
    \* closes it within the same step
    /\ sessions' = IF request_of(task[w].msg.job_id) # NoRow /\ ~db_ok
                   THEN db_close(SessionLocal(sessions, w), w)
                   ELSE SessionLocal(sessions, w)

\* ------------------------------------------------------------ the Analyzer
\* Texts the Analyzer can return
Analyses == { "report" }

\* str(e) of what reaches the handler at line 113
AnalyzerError == "AnalyzerError"
SoftTimeLimitExceeded == "SoftTimeLimitExceeded()"

\* lines 50-66: financial_crew.kickoff returns within the hard limit and its
\* text is extracted.
KickoffReturn(w, text) ==
    /\ task[w].pc = "kickoff"
    /\ task[w].elapsed < task_time_limit
    /\ task' = [task EXCEPT ![w] =
                  [ pc |-> "store", msg |-> @.msg, db_request |-> @.db_request,
                    analysis_text |-> text, elapsed |-> @.elapsed + 1 ]]
    /\ response' = NoResponse
    /\ UNCHANGED << celery_enabled, analysis_requests, analysis_results,
                    user_activity, queue, sent, deliveries, files, api, next_job,
                    now >>
    /\ UNCHANGED sessions

\* line 56: financial_crew.kickoff raises.
KickoffRaise(w) ==
    /\ task[w].pc = "kickoff"
    /\ task[w].elapsed < task_time_limit
    /\ task' = [task EXCEPT ![w] =
                  [ pc |-> "except", msg |-> @.msg, e |-> AnalyzerError ]]
    /\ response' = NoResponse
    /\ UNCHANGED << celery_enabled, analysis_requests, analysis_results,
                    user_activity, queue, sent, deliveries, files, api, next_job,
                    now >>
    /\ UNCHANGED sessions

\* celery_config.py line 30: at task_soft_time_limit the pool raises
\* SoftTimeLimitExceeded inside the running task.  It either propagates out
\* of kickoff to line 113, or the Analyzer swallows it and runs on.
SoftTimeLimit(w, propagates) ==
    /\ task[w].pc = "kickoff"
    /\ task[w].elapsed < task_soft_time_limit
    /\ task' = [task EXCEPT ![w] =
                  IF propagates
                  THEN [ pc |-> "except", msg |-> @.msg, e |-> SoftTimeLimitExceeded ]
                  ELSE [ @ EXCEPT !.elapsed = task_soft_time_limit ]]
    /\ response' = NoResponse
    /\ UNCHANGED << celery_enabled, analysis_requests, analysis_results,
                    user_activity, queue, sent, deliveries, files, api, next_job,
                    now >>
    /\ UNCHANGED sessions

\* celery_config.py line 29: at task_time_limit the pool kills the process
\* that runs the task.  No handler and no finally clause of the task runs;
\* the message was acknowledged when it was taken, so it is not requeued.
HardTimeLimit(w) ==
    /\ task[w].pc = "kickoff"
    /\ task[w].elapsed >= task_soft_time_limit
    /\ task[w].elapsed < task_time_limit
    /\ task' = EndTask(w)
    /\ response' = NoResponse
    /\ UNCHANGED << celery_enabled, analysis_requests, analysis_results,
                    user_activity, queue, sent, deliveries, files, api, next_job,
                    now >>
    \* the connections of the killed process end with it
    /\ sessions' = [sessions EXCEPT ![w] = 0]

\* Variant: analysis_results.job_id carries no unique index, so the insert of a
\* second row for a job succeeds.
TaskStoreNoUniqueIndex(w, db_ok) ==
    /\ task[w].pc = "store"
    /\ LET m == task[w].msg
           processing_time == task[w].elapsed
       IN
       IF ~db_ok
       THEN CommitRaisedInTry(w) /\ now' = now
       ELSE /\ now' = now + 1
            /\ analysis_results' = Append(analysis_results,
                    [ job_id |-> m.job_id,
                      filename |-> m.filename,
                      query |-> m.query,
                      analysis |-> task[w].analysis_text,
                      processing_time |-> processing_time,
                      created_at |-> now ])
            /\ analysis_requests' =
                 IF task[w].db_request
                 THEN [analysis_requests EXCEPT ![m.job_id] =
                          [ @ EXCEPT !.status = "completed",
                                     !.completed_at = Some(now),
                                     !.updated_at = now ]]
                 ELSE analysis_requests
            /\ user_activity' = Append(user_activity,
                    [ job_id |-> m.job_id,
                      file_size |-> m.file_size,
                      query_length |-> Len(m.query),
                      success |-> TRUE,
                      timestamp |-> now ])
            /\ task' = [task EXCEPT ![w] = [ pc |-> "cleanup", msg |-> m ]]
            /\ UNCHANGED files
    /\ response' = NoResponse
    /\ UNCHANGED << celery_enabled, queue, sent, deliveries, api, next_job >>
    /\ sessions' = IF ~db_ok THEN db_close(sessions, w) ELSE sessions

\* Variant: the Result row is committed on its own before the Job row and the
\* Activity row are written; db_ok = FALSE is the second commit raising.
TaskStoreTwoCommits(w, db_ok) ==
    /\ task[w].pc = "store"
    /\ LET m == task[w].msg
           processing_time == task[w].elapsed
       IN
       IF has_result(m.job_id)
       THEN CommitRaisedInTry(w) /\ now' = now
       ELSE IF ~db_ok
       THEN /\ now' = now + 1
            /\ analysis_results' = Append(analysis_results,
                    [ job_id |-> m.job_id,
                      filename |-> m.filename,
                      query |-> m.query,
                      analysis |-> task[w].analysis_text,
                      processing_time |-> processing_time,
                      created_at |-> now ])
            /\ task' = EndTask(w)
            /\ UNCHANGED << analysis_requests, user_activity, files >>
       ELSE /\ now' = now + 1
            /\ analysis_results' = Append(analysis_results,
                    [ job_id |-> m.job_id,
                      filename |-> m.filename,
                      query |-> m.query,
                      analysis |-> task[w].analysis_text,
                      processing_time |-> processing_time,
                      created_at |-> now ])
            /\ analysis_requests' =
                 IF task[w].db_request
                 THEN [analysis_requests EXCEPT ![m.job_id] =
                          [ @ EXCEPT !.status = "completed",
                                     !.completed_at = Some(now),
                                     !.updated_at = now ]]
                 ELSE analysis_requests
            /\ user_activity' = Append(user_activity,
                    [ job_id |-> m.job_id,
                      file_size |-> m.file_size,
                      query_length |-> Len(m.query),
                      success |-> TRUE,
                      timestamp |-> now ])
            /\ task' = [task EXCEPT ![w] = [ pc |-> "cleanup", msg |-> m ]]
            /\ UNCHANGED files
    /\ response' = NoResponse
    /\ UNCHANGED << celery_enabled, queue, sent, deliveries, api, next_job >>
    \* when the commit raises, the attempt ends through finally (line 148)
    /\ sessions' = IF has_result(task[w].msg.job_id) \/ ~db_ok
                   THEN db_close(sessions, w) ELSE sessions

\* ------------------------------------------------------- the success path
\* lines 68-96: one transaction inserts the Result row, sets the Job to
\* completed when line 40 found it, and inserts the Activity row.  The
\* insert violates the unique index on analysis_results.job_id
\* (database.py line 49) when a row for the job exists; then, or when the
\* commit raises for another reason (db_ok = FALSE), nothing is committed.
TaskStore(w, db_ok) ==
    /\ task[w].pc = "store"
    /\ LET m == task[w].msg
           processing_time == task[w].elapsed
       IN
       IF has_result(m.job_id) \/ ~db_ok
       THEN CommitRaisedInTry(w) /\ now' = now
       ELSE /\ now' = now + 1
            /\ analysis_results' = Append(analysis_results,
                    [ job_id |-> m.job_id,
                      filename |-> m.filename,
                      query |-> m.query,
                      analysis |-> task[w].analysis_text,
                      processing_time |-> processing_time,
                      created_at |-> now ])
            /\ analysis_requests' =
                 IF task[w].db_request
                 THEN [analysis_requests EXCEPT ![m.job_id] =
                          [ @ EXCEPT !.status = "completed",
                                     !.completed_at = Some(now),
                                     !.updated_at = now ]]
                 ELSE analysis_requests
            /\ user_activity' = Append(user_activity,
                    [ job_id |-> m.job_id,
                      file_size |-> m.file_size,
                      query_length |-> Len(m.query),
                      success |-> TRUE,
                      timestamp |-> now ])
            /\ task' = [task EXCEPT ![w] = [ pc |-> "cleanup", msg |-> m ]]
            /\ UNCHANGED files
    /\ response' = NoResponse
    /\ UNCHANGED << celery_enabled, queue, sent, deliveries, api, next_job >>
    \* when the commit raises, the attempt ends through finally (line 148)
    /\ sessions' = IF has_result(task[w].msg.job_id) \/ ~db_ok
                   THEN db_close(sessions, w) ELSE sessions

\* lines 98-111 and 137-148: os.remove of the input file when it exists, its
\* failure ignored (removed = FALSE); then the return or the re-raise, and
\* finally db.close().
TaskCleanup(w, removed) ==
    /\ task[w].pc = "cleanup"
    /\ files' = IF removed THEN files \ { task[w].msg.file_path } ELSE files
    /\ task' = EndTask(w)
    /\ response' = NoResponse
    /\ UNCHANGED << celery_enabled, analysis_requests, analysis_results,
                    user_activity, queue, sent, deliveries, api, next_job, now >>
    \* finally (line 148) on the return and on the re-raise
    /\ sessions' = db_close(sessions, w)

\* Variant: db.close() is the last statement of the handler instead of a
\* finally clause, so a commit raising inside the handler skips it.
TaskExceptCloseInHandler(w, db_ok) ==
    /\ task[w].pc = "except"
    /\ LET m == task[w].msg
           db_request == request_of(m.job_id)
       IN
       IF ~db_ok
       THEN /\ task' = EndTask(w)
            /\ UNCHANGED << analysis_requests, user_activity, now >>
       ELSE /\ now' = now + 1
            /\ analysis_requests' =
                 IF db_request # NoRow
                 THEN [analysis_requests EXCEPT ![m.job_id] =
                          [ @ EXCEPT !.status = "failed",
                                     !.error_message = Some(task[w].e),
                                     !.updated_at = now,
                                     !.completed_at = Some(now) ]]
                 ELSE analysis_requests
            /\ user_activity' = Append(user_activity,
                    [ job_id |-> m.job_id,
                      file_size |-> m.file_size,
                      query_length |-> IF m.query # <<>> THEN Len(m.query) ELSE 0,
                      success |-> FALSE,
                      timestamp |-> now ])
            /\ task' = [task EXCEPT ![w] = [ pc |-> "cleanup", msg |-> m ]]
    /\ response' = NoResponse
    /\ UNCHANGED << celery_enabled, analysis_results, queue, sent, deliveries,
                    files, api, next_job >>
    /\ sessions' = sessions

\* ------------------------------------------------------- the failure path
\* lines 113-135: the Job is looked up again and, when it exists, set to
\* failed with str(e) and completed_at; the Activity row with success=False
\* is inserted; commit.  When this commit raises (db_ok = FALSE) the
\* exception leaves the handler: nothing is committed and line 137 is not
\* reached.
TaskExcept(w, db_ok) ==
    /\ task[w].pc = "except"
    /\ LET m == task[w].msg
           db_request == request_of(m.job_id)
       IN
       IF ~db_ok
       THEN /\ task' = EndTask(w)
            /\ UNCHANGED << analysis_requests, user_activity, now >>
       ELSE /\ now' = now + 1
            /\ analysis_requests' =
                 IF db_request # NoRow
                 THEN [analysis_requests EXCEPT ![m.job_id] =
                          [ @ EXCEPT !.status = "failed",
                                     !.error_message = Some(task[w].e),
                                     !.updated_at = now,
                                     !.completed_at = Some(now) ]]
                 ELSE analysis_requests
            /\ user_activity' = Append(user_activity,
                    [ job_id |-> m.job_id,
                      file_size |-> m.file_size,
                      query_length |-> IF m.query # <<>> THEN Len(m.query) ELSE 0,
                      success |-> FALSE,
                      timestamp |-> now ])
            /\ task' = [task EXCEPT ![w] = [ pc |-> "cleanup", msg |-> m ]]
    /\ response' = NoResponse
    /\ UNCHANGED << celery_enabled, analysis_results, queue, sent, deliveries,
                    files, api, next_job >>
    \* when the handler's commit raises, finally (line 148) still runs
    /\ sessions' = IF ~db_ok THEN db_close(sessions, w) ELSE sessions

\* ------------------------------------------------------- a lost executor
\* The process that runs the task dies (killed, out of memory) anywhere
\* between taking the message and the end of the attempt: nothing of the open
\* transaction is committed, no handler and no finally clause runs.
WorkerLost(w) ==
    /\ task[w].pc \in { "start", "kickoff", "store", "except", "cleanup" }
    /\ task' = [task EXCEPT ![w] = [ pc |-> "lost", msg |-> task[w].msg ]]
    /\ response' = NoResponse
    /\ UNCHANGED << celery_enabled, analysis_requests, analysis_results,
                    user_activity, queue, sent, deliveries, files, api, next_job,
                    now >>
    \* the connections of the lost process end with it
    /\ sessions' = [sessions EXCEPT ![w] = 0]

\* The pool replaces the lost process.  The message was acknowledged when
\* it was taken (celery_config.py sets neither task_acks_late nor
\* task_reject_on_worker_lost), so the broker does not hold it any more.
Respawn(w) ==
    /\ task[w].pc = "lost"
    /\ task' = EndTask(w)
    /\ response' = NoResponse
    /\ UNCHANGED << celery_enabled, analysis_requests, analysis_results,
                    user_activity, queue, sent, deliveries, files, api, next_job,
                    now >>
    /\ UNCHANGED sessions

\* ===================================================== GET /result/{job_id}
\* main.py lines 244-246 and 262-270: the first query reads the Result table;
\* a row found is returned, otherwise the request goes on to the Job table.
GetJobResultQuery(j) ==
    /\ api.pc = "idle"
    /\ IF has_result(j)
       THEN /\ response' = [ op |-> "result", job_id |-> j, code |-> 200,
                              body |-> result_of(j) ]
            /\ api' = api
       ELSE /\ response' = NoResponse
            /\ api' = [ pc |-> "result_request", job_id |-> j ]
    /\ UNCHANGED << celery_enabled, analysis_requests, analysis_results,
                    user_activity, queue, sent, deliveries, files, task,
                    next_job, now >>
    /\ UNCHANGED sessions

\* main.py lines 247-260: the second query reads the Job table.
get_job_result_without_row(j) ==
    LET db_request == request_of(j) IN
    IF db_request # NoRow /\ db_request.status \in { "pending", "processing" }
    THEN [ op |-> "result", job_id |-> j, code |-> 202,
           detail |-> db_request.status ]
    ELSE IF db_request # NoRow /\ db_request.status = "failed"
    THEN [ op |-> "result", job_id |-> j, code |-> 500,
           detail |-> db_request.error_message ]
    ELSE [ op |-> "result", job_id |-> j, code |-> 404 ]

GetJobResultRequest ==
    /\ api.pc = "result_request"
    /\ response' = get_job_result_without_row(api.job_id)
    /\ api' = IdleApi
    /\ UNCHANGED << celery_enabled, analysis_requests, analysis_results,
                    user_activity, queue, sent, deliveries, files, task,
                    next_job, now >>
    /\ UNCHANGED sessions

\* ===================================================== GET /status/{job_id}
\* main.py lines 215-236: one query; 404 when there is no row, otherwise the
\* row's status and timestamps, completed_at when the status is completed or
\* failed, and the key "error" when the status is failed.
\* Variant: the key "error" is added whenever the row holds an error_message,
\* not only when the status is failed.
get_job_status_error_if_set(j) ==
    LET db_request == request_of(j)
        base == [ op |-> "status", job_id |-> j, code |-> 200,
                  status |-> db_request.status,
                  filename |-> db_request.filename,
                  query |-> db_request.query,
                  created_at |-> db_request.created_at,
                  updated_at |-> db_request.updated_at ]
        extra ==
            IF db_request.error_message # NULL
            THEN [ error |-> db_request.error_message,
                   completed_at |-> db_request.completed_at ]
            ELSE IF db_request.status = "completed"
            THEN [ completed_at |-> db_request.completed_at, message |-> "completed" ]
            ELSE << >>
    IN
    IF db_request = NoRow
    THEN [ op |-> "status", job_id |-> j, code |-> 404 ]
    ELSE base @@ extra

get_job_status(j) ==
    LET db_request == request_of(j)
        base == [ op |-> "status", job_id |-> j, code |-> 200,
                  status |-> db_request.status,
                  filename |-> db_request.filename,
                  query |-> db_request.query,
                  created_at |-> db_request.created_at,
                  updated_at |-> db_request.updated_at ]
        extra ==
            IF db_request.status = "completed"
            THEN [ completed_at |-> db_request.completed_at, message |-> "completed" ]
            ELSE IF db_request.status = "failed"
            THEN [ error |-> db_request.error_message,
                   completed_at |-> db_request.completed_at ]
            ELSE << >>
    IN
    IF db_request = NoRow
    THEN [ op |-> "status", job_id |-> j, code |-> 404 ]
    ELSE base @@ extra

GetJobStatus(j) ==
    /\ response' = get_job_status(j)
    /\ UNCHANGED << celery_enabled, analysis_requests, analysis_results,
                    user_activity, queue, sent, deliveries, files, task, api,
                    next_job, now >>
    /\ UNCHANGED sessions

\* ================================================================ GET /stats
\* main.py lines 315-329: the nine queries of get_statistics in the order the
\* handler issues them, each read from the tables as they are when it runs.
\* The average (line 325) is kept as the pair << sum, number of rows >>.
count_status(st) == Cardinality({ j \in JobIds : status_of(j) = st })

stats_query(k) ==
    CASE k = 1 -> Len(analysis_results)
      [] k = 2 -> Cardinality({ j \in JobIds : analysis_requests[j] # NoRow })
      [] k = 3 -> count_status("pending")
      [] k = 4 -> count_status("processing")
      [] k = 5 -> count_status("completed")
      [] k = 6 -> count_status("failed")
      [] k = 7 -> << SumOver([ i \in 1..Len(analysis_results) |->
                                 analysis_results[i].processing_time ],
                             1..Len(analysis_results)),
                     Len(analysis_results) >>
      [] k = 8 -> Len(user_activity)
      [] k = 9 -> Cardinality({ i \in 1..Len(user_activity) : user_activity[i].success })

NumStatsQueries == 9

\* round(n / d, 2) in hundredths.  Python rounds an exact half to the even
\* digit; 100 * s / t has no exact half in the third decimal for t < 32.
round_2(n, d) == (200 * n + d) \div (2 * d)

\* main.py lines 330 and 342: (successful / total * 100) if total > 0 else 0,
\* rounded to two decimals; the value is in hundredths of a percent.
success_rate(successful_activity, total_activity) ==
    IF total_activity > 0
    THEN round_2(successful_activity * 100, total_activity) ELSE 0

\* main.py lines 332-344: the response built from the nine values read.
get_statistics(seen) ==
    [ op |-> "stats", code |-> 200,
      total_analyses_completed |-> seen[1],
      total_requests |-> seen[2],
      status_breakdown |-> [ pending |-> seen[3], processing |-> seen[4],
                             completed |-> seen[5], failed |-> seen[6] ],
      average_processing_time_seconds |->
          IF seen[7][2] = 0 \/ seen[7][1] = 0 THEN NULL
          ELSE Some(round_2(seen[7][1], seen[7][2])),
      success_rate_percentage |-> success_rate(seen[9], seen[8]),
      celery_enabled |-> celery_enabled ]

\* line 315: the request starts with its first query.
GetStatisticsBegin ==
    /\ api.pc = "idle"
    /\ api' = [ pc |-> "stats", seen |-> << stats_query(1) >> ]
    /\ response' = NoResponse
    /\ UNCHANGED << celery_enabled, analysis_requests, analysis_results,
                    user_activity, queue, sent, deliveries, files, task,
                    next_job, now >>
    /\ UNCHANGED sessions

\* lines 316-328: the next query.
GetStatisticsQuery ==
    /\ api.pc = "stats"
    /\ Len(api.seen) < NumStatsQueries - 1
    /\ api' = [ api EXCEPT !.seen = Append(@, stats_query(Len(@) + 1)) ]
    /\ response' = NoResponse
    /\ UNCHANGED << celery_enabled, analysis_requests, analysis_results,
                    user_activity, queue, sent, deliveries, files, task,
                    next_job, now >>
    /\ UNCHANGED sessions

\* lines 329-344: the last query and the response.
GetStatisticsReturn ==
    /\ api.pc = "stats"
    /\ Len(api.seen) = NumStatsQueries - 1
    /\ response' = get_statistics(Append(api.seen, stats_query(NumStatsQueries)))
    /\ api' = IdleApi
    /\ UNCHANGED << celery_enabled, analysis_requests, analysis_results,
                    user_activity, queue, sent, deliveries, files, task,
                    next_job, now >>
    /\ UNCHANGED sessions

\* ============================================================ GET /history
\* Query(ge=1, le=100) and Query(ge=0), main.py lines 275-276
limit_min == 1
limit_max == 100
offset_min == 0

Min(a, b) == IF a <= b THEN a ELSE b

\* Variant: ORDER BY created_at without .desc()
RECURSIVE order_by_created_at_asc(_)
order_by_created_at_asc(rows) ==
    IF rows = <<>> THEN <<>>
    ELSE LET i == CHOOSE k \in 1..Len(rows) :
                    \A m \in 1..Len(rows) : rows[k].created_at <= rows[m].created_at
             rest == [ n \in 1..(Len(rows) - 1) |-> IF n < i THEN rows[n] ELSE rows[n + 1] ]
         IN << rows[i] >> \o order_by_created_at_asc(rest)

\* .order_by(AnalysisResult.created_at.desc()), main.py line 288: the newest
\* row is taken out first, then the rest is ordered.
RECURSIVE order_by_created_at_desc(_)
order_by_created_at_desc(rows) ==
    IF rows = <<>> THEN <<>>
    ELSE LET i == CHOOSE k \in 1..Len(rows) :
                    \A m \in 1..Len(rows) : rows[k].created_at >= rows[m].created_at
             rest == [ n \in 1..(Len(rows) - 1) |-> IF n < i THEN rows[n] ELSE rows[n + 1] ]
         IN << rows[i] >> \o order_by_created_at_desc(rest)

\* main.py lines 286-307: the count, then the page .limit(limit).offset(offset)
\* of the ordered rows, each row reduced to five of its columns.  A limit or
\* offset outside its range is refused before the handler runs.
get_analysis_history(limit, offset) ==
    IF limit < limit_min \/ limit > limit_max \/ offset < offset_min
    THEN [ op |-> "history", code |-> 422, limit |-> limit, offset |-> offset ]
    ELSE
    LET total == Len(analysis_results)
        ordered == order_by_created_at_desc(analysis_results)
        first == offset + 1
        last == Min(offset + limit, total)
        results == IF first > last THEN <<>>
                   ELSE [ n \in 1..(last - first + 1) |->
                            LET r == ordered[first + n - 1] IN
                            [ job_id |-> r.job_id, filename |-> r.filename,
                              query |-> r.query,
                              processing_time |-> r.processing_time,
                              created_at |-> r.created_at ] ]
    IN [ op |-> "history", code |-> 200, total |-> total, limit |-> limit,
         offset |-> offset, results |-> results ]

GetAnalysisHistory(limit, offset) ==
    /\ response' = get_analysis_history(limit, offset)
    /\ UNCHANGED << celery_enabled, analysis_requests, analysis_results,
                    user_activity, queue, sent, deliveries, files, task, api,
                    next_job, now >>
    /\ UNCHANGED sessions

\* Stores in which jobs 1..T have each been submitted, delivered once and
\* completed; job i's Result row was stamped at[i] (datetime.utcnow,
\* database.py line 54: two rows can carry the same stamp).
Stamps(T) == [ 1..T -> 1..T ]

CompletedStores(T, at) ==
    /\ celery_enabled = TRUE
    /\ analysis_requests =
          [ j \in 1..T |->
              [ job_id |-> j, filename |-> "a.pdf", query |-> <<" ", "q">>,
                status |-> "completed", created_at |-> 1, updated_at |-> at[j],
                completed_at |-> Some(at[j]), error_message |-> NULL ] ]
    /\ analysis_results =
          [ j \in 1..T |->
              [ job_id |-> j, filename |-> "a.pdf", query |-> <<"q">>,
                analysis |-> "report", processing_time |-> 1,
                created_at |-> at[j] ] ]
    /\ user_activity =
          [ j \in 1..T |->
              [ job_id |-> j, file_size |-> 10, query_length |-> 1,
                success |-> TRUE, timestamp |-> at[j] ] ]
    /\ queue = <<>>
    /\ sent = [ j \in 1..T |->
                  [ job_id |-> j, file_path |-> file_path_of(j), query |-> <<"q">>,
                    filename |-> "a.pdf", file_size |-> 10 ] ]
    /\ deliveries = [ j \in 1..T |-> 1 ]
    /\ files = {}
    /\ task = [ w \in Workers |-> IdleTask ]
    /\ api = IdleApi
    /\ response = NoResponse
    /\ next_job = T + 1
    /\ now = T + 1
    /\ sessions = [w \in Workers |-> 0]

HistoryInit ==
    \/ \E T \in 0..MaxResults : \E at \in Stamps(T) : CompletedStores(T, at)
    \/ CompletedStores(ExampleResults, [ j \in 1..ExampleResults |-> j ])

Limits == { 0, 1, 2, 3, 10, 100, 101 }
Offsets == { -1, 0, 1, 2, 3, 4, 10 }

HistoryNext == \E limit \in Limits, offset \in Offsets : GetAnalysisHistory(limit, offset)

HistorySpec == HistoryInit /\ [][HistoryNext]_vars

\* ============================================================ specification
\* Submission, the broker and the executors
PipelineNext ==
    \/ \E q \in Queries, f \in Filenames, n \in FileSizes, db_ok \in BOOLEAN :
          SubmitCreate(q, f, n, db_ok)
    \/ \E broker_ok \in BOOLEAN : SubmitEnqueue(broker_ok)
    \/ \E w \in Workers : Deliver(w)
    \/ \E j \in JobIds : Redeliver(j)
    \/ \E w \in Workers, db_ok \in BOOLEAN : TaskStart(w, db_ok)
    \/ \E w \in Workers, text \in Analyses : KickoffReturn(w, text)
    \/ \E w \in Workers : KickoffRaise(w)
    \/ \E w \in Workers, propagates \in BOOLEAN : SoftTimeLimit(w, propagates)
    \/ \E w \in Workers : HardTimeLimit(w)
    \/ \E w \in Workers, db_ok \in BOOLEAN : TaskStore(w, db_ok)
    \/ \E w \in Workers, db_ok \in BOOLEAN : TaskExcept(w, db_ok)
    \/ \E w \in Workers, removed \in BOOLEAN : TaskCleanup(w, removed)

Next ==
    \/ PipelineNext
    \/ \E j \in JobIds : GetJobResultQuery(j)
    \/ GetJobResultRequest

Spec == Init /\ [][Next]_vars

\* The pipeline polled through GET /status
StatusNext ==
    \/ PipelineNext
    \/ \E j \in JobIds : GetJobStatus(j)

StatusSpec == Init /\ [][StatusNext]_vars

\* What a client can upload: a blank query or one with whitespace around it,
\* an empty file or a 10-byte one.  Each message is delivered once and the
\* Analyzer answers before the soft limit.
ClientQueries == { <<>>, <<" ", "q">> }
ClientFileSizes == { 0, 10 }

InputNext ==
    \/ \E q \in ClientQueries, f \in Filenames, n \in ClientFileSizes,
          db_ok \in BOOLEAN : SubmitCreate(q, f, n, db_ok)
    \/ \E broker_ok \in BOOLEAN : SubmitEnqueue(broker_ok)
    \/ \E w \in Workers : Deliver(w)
    \/ \E w \in Workers, db_ok \in BOOLEAN : TaskStart(w, db_ok)
    \/ \E w \in Workers, text \in Analyses : KickoffReturn(w, text)
    \/ \E w \in Workers : KickoffRaise(w)
    \/ \E w \in Workers, db_ok \in BOOLEAN : TaskStore(w, db_ok)
    \/ \E w \in Workers, db_ok \in BOOLEAN : TaskExcept(w, db_ok)
    \/ \E w \in Workers, removed \in BOOLEAN : TaskCleanup(w, removed)

InputSpec == Init /\ [][InputNext]_vars

\* GET /stats while jobs are submitted and worked on.  Each message is
\* delivered once and the Analyzer answers before the soft limit.
StatsNext ==
    \/ \E q \in Queries, f \in Filenames, n \in FileSizes, db_ok \in BOOLEAN :
          SubmitCreate(q, f, n, db_ok)
    \/ \E broker_ok \in BOOLEAN : SubmitEnqueue(broker_ok)
    \/ \E w \in Workers : Deliver(w)
    \/ \E w \in Workers, db_ok \in BOOLEAN : TaskStart(w, db_ok)
    \/ \E w \in Workers, text \in Analyses : KickoffReturn(w, text)
    \/ \E w \in Workers : KickoffRaise(w)
    \/ \E w \in Workers, db_ok \in BOOLEAN : TaskStore(w, db_ok)
    \/ \E w \in Workers, db_ok \in BOOLEAN : TaskExcept(w, db_ok)
    \/ \E w \in Workers, removed \in BOOLEAN : TaskCleanup(w, removed)
    \/ GetStatisticsBegin
    \/ GetStatisticsQuery
    \/ GetStatisticsReturn

StatsSpec == Init /\ [][StatsNext]_vars

\* Executors are scheduled fairly, the Analyzer call always returns, raises or
\* hits a deadline, and a submission in progress finishes.  The broker is
\* under no obligation to deliver a message twice.
KickoffOutcome(w) ==
    \/ \E text \in Analyses : KickoffReturn(w, text)
    \/ KickoffRaise(w)
    \/ \E propagates \in BOOLEAN : SoftTimeLimit(w, propagates)
    \/ HardTimeLimit(w)

Fairness ==
    /\ WF_vars(\E broker_ok \in BOOLEAN : SubmitEnqueue(broker_ok))
    /\ \A w \in Workers :
        /\ WF_vars(Deliver(w))
        /\ WF_vars(\E db_ok \in BOOLEAN : TaskStart(w, db_ok))
        /\ WF_vars(KickoffOutcome(w))
        /\ WF_vars(\E db_ok \in BOOLEAN : TaskStore(w, db_ok))
        /\ WF_vars(\E db_ok \in BOOLEAN : TaskExcept(w, db_ok))
        /\ WF_vars(\E removed \in BOOLEAN : TaskCleanup(w, removed))

FairSpec == Spec /\ Fairness

\* The pipeline with executors that can be lost
CrashNext ==
    \/ PipelineNext
    \/ \E w \in Workers : WorkerLost(w)
    \/ \E w \in Workers : Respawn(w)

CrashSpec ==
    /\ Init /\ [][CrashNext]_vars
    /\ Fairness
    /\ \A w \in Workers : WF_vars(Respawn(w))

\* ================================================================== claims
Terminal == { "completed", "failed" }

\* Executors that have claimed job j and whose attempt has not ended
Attempting(j) ==
    { w \in Workers :
        task[w].pc \in { "kickoff", "store", "except", "cleanup" }
        /\ task[w].msg.job_id = j }

\* C1: the committed status of a job changes only along
\* pending -> processing -> completed and pending -> processing -> failed
\* (a row is created as pending); no other change of status is ever made.
AllowedTransitions ==
    { << "absent", "pending" >>, << "pending", "processing" >>,
      << "processing", "completed" >>, << "processing", "failed" >> }

C1_StatusStateMachine ==
    [][ \A j \in JobIds :
          status_of(j)' # status_of(j)
            => << status_of(j), status_of(j)' >> \in AllowedTransitions ]_vars

\* C2: in every committed state a Result row exists for a job exactly when
\* the Job row has status completed.
C2_ResultIffCompleted ==
    \A j \in JobIds : has_result(j) <=> status_of(j) = "completed"

\* C3: an executor that comes to claim a job which another executor has
\* already claimed and is still working on discards its message: it does not
\* go on to the Analyzer and it writes nothing to the three stores.
C3_OneClaimant ==
    [][ \A w \in Workers :
          ( /\ task[w].pc = "start"
            /\ task'[w].pc # "start"
            /\ Attempting(task[w].msg.job_id) # {} )
          => ( task'[w] = IdleTask /\ UNCHANGED stores ) ]_vars

\* C4: once a job has completed, nothing a later delivery does changes its
\* status, completed_at or error_message, its Result row, or the number of
\* Activity rows with success=true for it.
C4_RedeliveryAfterSuccessNoOp ==
    [][ \A j \in JobIds :
          status_of(j) = "completed"
          => /\ analysis_requests'[j].status = "completed"
             /\ analysis_requests'[j].completed_at = analysis_requests[j].completed_at
             /\ analysis_requests'[j].error_message = analysis_requests[j].error_message
             /\ result_rows(j)' = result_rows(j)
             /\ result_of(j)' = result_of(j)
             /\ activity_rows(j, TRUE)' = activity_rows(j, TRUE) ]_vars

\* C5: every job whose Dispatch Message was enqueued eventually reaches
\* completed or failed (checked under FairSpec).
C5_NoSilentJobLoss ==
    \A j \in JobIds : (sent[j] # NoMsg) ~> (status_of(j) \in Terminal)

\* C6: once submit has returned, every Job with status pending has a
\* Dispatch Message that was enqueued for it.
C6_PendingHasMessage ==
    \A j \in JobIds :
        ( status_of(j) = "pending" /\ ~(api.pc = "enqueue" /\ api.job_id = j) )
        => sent[j] # NoMsg

\* C7: when an attempt is ended by the hard deadline, its Job is failed, has
\* completed_at set and carries an error_message that is not the one of an
\* Analyzer runtime error.
C7_HardDeadlineFailsJob ==
    [][ \A w \in Workers :
          ( task[w].pc = "kickoff" /\ task'[w] = IdleTask )
          => LET j == task[w].msg.job_id IN
             /\ analysis_requests'[j].status = "failed"
             /\ analysis_requests'[j].completed_at # NULL
             /\ analysis_requests'[j].error_message # NULL
             /\ analysis_requests'[j].error_message # Some(AnalyzerError) ]_vars

\* C8: completed_at is non-null exactly when the status is completed or
\* failed, and once set it is never written again.
C8_CompletedAtOnce ==
    /\ [] ( \A j \in JobIds :
              analysis_requests[j] # NoRow
              => ( analysis_requests[j].completed_at # NULL
                   <=> analysis_requests[j].status \in Terminal ) )
    /\ [][ \A j \in JobIds :
              ( analysis_requests[j] # NoRow /\ analysis_requests[j].completed_at # NULL )
              => analysis_requests'[j].completed_at = analysis_requests[j].completed_at ]_vars

\* C9: error_message is non-null exactly when the status is failed.
C9_ErrorMessageIffFailed ==
    \A j \in JobIds :
        analysis_requests[j] # NoRow
        => ( analysis_requests[j].error_message # NULL
             <=> analysis_requests[j].status = "failed" )

\* C10: a response of result(job_id) is determined by the Job's status:
\* 202 exactly when pending or processing, 500 with the Job's error_message
\* exactly when failed, the stored Result exactly when completed, and 404
\* exactly when no Job row with that id exists.
C10_ResultAnswersByStatus ==
    response.op = "result"
    => LET j == response.job_id
           st == status_of(j)
       IN
       /\ response.code = 202 <=> st \in { "pending", "processing" }
       /\ response.code = 500 <=> st = "failed"
       /\ response.code = 500 => response.detail = analysis_requests[j].error_message
       /\ response.code = 200 <=> st = "completed"
       /\ response.code = 200 => ( has_result(j) /\ response.body = result_of(j) )
       /\ response.code = 404 <=> st = "absent"

\* C11: status(job_id) answers 404 exactly when no Job row exists; otherwise
\* it returns the row's committed status, created_at and updated_at, and it
\* carries the key "error" (holding the row's error_message) exactly when
\* the status is failed.
C11_StatusAnswer ==
    response.op = "status"
    => LET j == response.job_id
           row == analysis_requests[j]
       IN
       /\ response.code = 404 <=> row = NoRow
       /\ response.code # 404
          => /\ response.code = 200
             /\ response.status = row.status
             /\ response.created_at = row.created_at
             /\ response.updated_at = row.updated_at
             /\ "error" \in DOMAIN response <=> row.status = "failed"
             /\ "error" \in DOMAIN response => response.error = row.error_message

\* C11 witness: status() has answered for a Job that is processing again
\* after an earlier failure, so the row holds an error_message that the
\* answer must leave out.
C11_Witness ==
    /\ response.op = "status"
    /\ response.code = 200
    /\ response.status = "processing"
    /\ analysis_requests[response.job_id].error_message # NULL

\* C12: a submission of an empty file is rejected: no Job row is created for
\* it (no submission with file_size 0 gets as far as the enqueue step, where
\* the row and the file exist) and no Dispatch Message is enqueued for it.
C12_EmptyFileRejected ==
    /\ api.pc = "enqueue" => api.file_size > 0
    /\ \A j \in JobIds : sent[j] # NoMsg => sent[j].file_size > 0

\* C13: when the enqueue step of submit fails (the submission ends and no
\* Dispatch Message was accepted for its job), the client is answered with a
\* 503.
C13_BrokerUnreachable503 ==
    [][ ( api.pc = "enqueue" /\ api'.pc = "idle" /\ sent'[api.job_id] = NoMsg )
        => response'.code = 503 ]_vars

\* Executors that hold a Dispatch Message of job j
Holding(j) ==
    { w \in Workers :
        task[w].pc \in { "start", "kickoff", "store", "except", "cleanup" }
        /\ task[w].msg.job_id = j }

\* C14: when an executor is lost while it holds the message of a job that
\* has no terminal status, the message is eventually delivered to an
\* executor again (checked under CrashSpec).
C14_RedeliveredAfterCrash ==
    \A w \in Workers, j \in JobIds :
        ( /\ task[w].pc = "lost"
          /\ task[w].msg.job_id = j
          /\ status_of(j) \notin Terminal )
        ~> ( Holding(j) # {} )

\* Rows of the Result table newer than row k, and rows not older than it
Newer(k) ==
    { m \in 1..Len(analysis_results) :
        analysis_results[m].created_at > analysis_results[k].created_at }

NotOlder(k) ==
    { m \in 1..Len(analysis_results) :
        analysis_results[m].created_at >= analysis_results[k].created_at }

JobsOn(page) == { page[i].job_id : i \in 1..Len(page) }

Max(a, b) == IF a >= b THEN a ELSE b

\* C15: for a limit in [1,100] and an offset >= 0, history reports the number
\* T of stored Results as total and returns min(limit, max(0, T - offset))
\* entries, no Result twice; its i-th entry is a stored Result whose position
\* offset + i in the newest-first ordering is right (all newer Results come
\* before it, only Results not older than it come before it); and the pages
\* at offsets 0, limit, 2*limit, ... are pairwise disjoint and together hold
\* every stored Result.
C15_HistoryPage ==
    ( /\ response.op = "history"
      /\ response.limit \in limit_min..limit_max
      /\ response.offset >= offset_min )
    => LET T == Len(analysis_results)
           L == response.limit
           O == response.offset
           R == response.results
           page(k) == get_analysis_history(L, k * L).results
       IN
       /\ response.code = 200
       /\ response.total = T
       /\ Len(R) = Min(L, Max(0, T - O))
       /\ \A i \in 1..Len(R) :
             \E k \in 1..T :
                /\ analysis_results[k].job_id = R[i].job_id
                /\ analysis_results[k].created_at = R[i].created_at
                /\ Cardinality(Newer(k)) <= O + i - 1
                /\ O + i <= Cardinality(NotOlder(k))
       /\ Cardinality(JobsOn(R)) = Len(R)
       /\ \A a, b \in 0..T : a # b => JobsOn(page(a)) \cap JobsOn(page(b)) = {}
       /\ UNION { JobsOn(page(a)) : a \in 0..T }
            = { analysis_results[k].job_id : k \in 1..T }

\* C15 witness: with 15 stored Results, history(limit=10, offset=10) has
\* answered with the remaining 5 and total 15.
C15_Witness ==
    /\ response.op = "history"
    /\ response.code = 200
    /\ Len(analysis_results) = 15
    /\ response.limit = 10
    /\ response.offset = 10
    /\ response.total = 15
    /\ Len(response.results) = 5

Abs(x) == IF x >= 0 THEN x ELSE -x

\* C16: a stats response reports as success rate 100 * s / t, where t is the
\* number of Activity Records and s the number of them with success = TRUE
\* (to the two decimals the response carries), and 0 when there is no
\* Activity Record.
C16_SuccessRate ==
    response.op = "stats"
    => LET t == Len(user_activity)
           s == Cardinality({ i \in 1..t : user_activity[i].success })
           r == response.success_rate_percentage
       IN IF t = 0 THEN r = 0
          ELSE 2 * Abs(r * t - 10000 * s) <= t

\* C17: an executor that starts on a message whose Job is completed or failed
\* drops the message: its attempt ends there without calling the Analyzer,
\* and the Job, Result and Activity tables are left as they were.
C17_TerminalJobDiscarded ==
    [][ \A w \in Workers :
          ( /\ task[w].pc = "start"
            /\ status_of(task[w].msg.job_id) \in Terminal
            /\ task'[w].pc # "start" )
          => ( /\ task'[w] = IdleTask
               /\ analysis_requests' = analysis_requests
               /\ analysis_results' = analysis_results
               /\ user_activity' = user_activity ) ]_vars

\* C18: an attempt that fails after claiming the job -- the failure handler
\* entered after an Analyzer error or a soft timeout, or the store write of
\* the success path raising -- leaves the Job failed with an error_message
\* and appends exactly one Activity Record with success = FALSE for the job.
C18_FailureRecorded ==
    [][ \A w \in Workers :
          ( \/ task[w].pc = "except" /\ task'[w].pc = "cleanup"
            \/ task[w].pc = "store" /\ task'[w] = IdleTask )
          => ( /\ analysis_requests'[task[w].msg.job_id].status = "failed"
               /\ analysis_requests'[task[w].msg.job_id].error_message # NULL
               /\ Len(user_activity') = Len(user_activity) + 1
               /\ user_activity'[Len(user_activity')].job_id = task[w].msg.job_id
               /\ user_activity'[Len(user_activity')].success = FALSE ) ]_vars

\* C19: when an attempt ends because a commit raised (the first commit, the
\* commit of the success path, or the commit of the failure handler), the
\* job's input file is no longer on disk.
C19_FileRemovedOnEveryExit ==
    [][ \A w \in Workers :
          ( /\ task[w].pc \in { "start", "store", "except" }
            /\ task'[w] = IdleTask )
          => task[w].msg.file_path \notin files' ]_vars

C21_ResultUniqueImmutable ==
    [][ /\ \A j \in JobIds : Cardinality(result_rows(j)') <= 1
        /\ Len(analysis_results') >= Len(analysis_results)
        /\ \A i \in 1..Len(analysis_results) :
              analysis_results'[i] = analysis_results[i] ]_vars

\* C21 witness: a job with a Result row was delivered again, its second
\* attempt set it to processing and has ended, and the table still holds the
\* one row.
C21_Witness ==
    \E j \in JobIds :
        /\ Cardinality(result_rows(j)) = 1
        /\ deliveries[j] >= 2
        /\ status_of(j) = "processing"
        /\ Holding(j) = {}

C23_SessionReleased ==
    \A w \in Workers :
        /\ task[w].pc \in { "kickoff", "store", "except", "cleanup" }
             => sessions[w] = 1
        /\ task[w].pc \in { "idle", "start" } => sessions[w] = 0

\* C23 witness: a job's only attempt was claimed and has ended without a
\* terminal status (a commit raised in the try block or in the handler, or
\* the process was killed), and no executor holds a session.
C23_Witness ==
    \E j \in JobIds :
        /\ status_of(j) = "processing"
        /\ deliveries[j] = 1
        /\ queue = <<>>
        /\ \A w \in Workers : task[w].pc = "idle" /\ sessions[w] = 0

\* C24: every Dispatch Message in the queue or held by an executor names a
\* job whose Job row exists, and the lookup at the start of an attempt has
\* found the row.
C24_JobRowBeforeMessage ==
    /\ \A i \in 1..Len(queue) : request_of(queue[i].job_id) # NoRow
    /\ \A w \in Workers :
          /\ task[w].pc # "idle" => request_of(task[w].msg.job_id) # NoRow
          /\ task[w].pc \in { "kickoff", "store" } => task[w].db_request

\* C24 witness: an executor has looked its job up and is inside the Analyzer
\* call while another message waits in the queue.
C24_Witness ==
    /\ queue # <<>>
    /\ \E w \in Workers : task[w].pc = "kickoff" /\ task[w].db_request

\* C25: a job has an Activity Record with success = TRUE exactly when it has
\* a Result row (as many of the one as of the other); the step that stores
\* them also sets the Job to completed, and a store step whose commit raises
\* leaves the Job, Result and Activity tables as they were.
C25_SuccessCommittedTogether ==
    [][ /\ \A j \in JobIds :
             Cardinality(activity_rows(j, TRUE)') = Cardinality(result_rows(j)')
        /\ \A w \in Workers :
             /\ ( task[w].pc = "store" /\ task'[w].pc = "cleanup" )
                  => /\ Len(analysis_results') = Len(analysis_results) + 1
                     /\ Len(user_activity') = Len(user_activity) + 1
                     /\ analysis_requests'[task[w].msg.job_id].status = "completed"
             /\ ( task[w].pc = "store" /\ task'[w] = IdleTask )
                  => /\ analysis_requests' = analysis_requests
                     /\ analysis_results' = analysis_results
                     /\ user_activity' = user_activity ]_vars

\* C25 witness: one job has its Result row, its success Activity Record and
\* status completed; the store commit of another job's only attempt has
\* raised or that attempt failed otherwise, and it has neither row.
C25_Witness ==
    \E j, k \in JobIds :
        /\ has_result(j)
        /\ activity_rows(j, TRUE) # {}
        /\ status_of(j) = "completed"
        /\ status_of(k) = "processing"
        /\ deliveries[k] = 1
        /\ Holding(k) = {}
        /\ queue = <<>>
        /\ ~has_result(k)
        /\ activity_rows(k, TRUE) = {}

\* C26: in every stats response the pending, processing, completed and failed
\* counts add up to the reported total_requests, and the reported completed
\* count equals the reported total_analyses_completed.
C26_StatsConsistent ==
    response.op = "stats"
    => LET b == response.status_breakdown IN
       /\ b.pending + b.processing + b.completed + b.failed
            = response.total_requests
       /\ b.completed = response.total_analyses_completed

====
